---- MODULE Spec2Model ----
(***************************************************************************)
(* GraphAqiUpdater (src/src/utils/graph_aqi_updater.py) and the exposure   *)
(* cost model (src/src/utils/aq_exposures.py) of hope-green-path-server.   *)
(*                                                                         *)
(* The updater is a scheduler job that may run in max_instances threads at *)
(* once.  Every job instance is modelled as a thread whose pc walks        *)
(* through the statements of maybe_read_update_aqi_to_graph and            *)
(* read_update_aqi_to_graph that read or write shared state.               *)
(*                                                                         *)
(* The pure functions (get_aqi_class, validate_aqi_exps, the left merge)   *)
(* are also called on their own, on arguments drawn from bounded sets, in  *)
(* the specification SpecFn.                                               *)
(*                                                                         *)
(* Numbers: AQI values, lengths and costs are fixed point with two         *)
(* decimals (300 is 3.00); sensitivities are in tenths (2 is 0.2); time is *)
(* counted in clock ticks, TicksPerSec ticks to the second.                *)
(***************************************************************************)
EXTENDS Integers, Sequences, FiniteSets, TLC

----------------------------------------------------------------------------
(* Bounds of the model *)

\* the clock runs through the first MaxPoint of its time points (three to
\* the hour, see Offsets)
MaxPoint == 6
\* resolution of the clock: ticks per second
TicksPerSec == 4
\* the frames handed to a data frame operation called on its own have at
\* most MaxRows rows
MaxRows == 2
\* the pollution indices handed to get_aqi_class called on its own run, in
\* hundredths, from -MaxNegAqi to MaxAqi
MaxNegAqi == 100
MaxAqi == 600

----------------------------------------------------------------------------
(* Program constants *)

\* scheduler.add_job(..., max_instances=2)
max_instances == 2
\* one upstream file per UTC hour: strftime('%Y-%m-%dT%H')
SecsPerHour == 3600
\* bool_graph_aqi_is_up_to_date: 60 * 70
FreshLimitSecs == 60 * 70
\* time.sleep(60)
SleepSecs == 60

Threads == 1..max_instances

\* datetime.utcnow() takes one of these values; the offsets within the hour
\* put the clock right at, and a fraction of a second around, the freshness
\* limit of an update made on the hour (3600 s + 600 s = 70 min).
Offsets ==
  { 0,
    599 * TicksPerSec + 1,
    599 * TicksPerSec + ((TicksPerSec + 1) \div 2) }

\* the UTC hours the clock runs through are 0..MaxHour
MaxHour == (MaxPoint - 1) \div Cardinality(Offsets)
Hours == 0..MaxHour

TimePoints ==
  LET all == { h * SecsPerHour * TicksPerSec + o : h \in Hours, o \in Offsets }
  IN  { p \in all : Cardinality({ q \in all : q < p }) < MaxPoint }

\* aqi_data_updatetime = None
None == -1

----------------------------------------------------------------------------
(* Values found in the aqi_exp column *)

\* a Python value: its type and, for numbers, its value in hundredths
Float(x) == [t |-> "float", x |-> x]
IntV(x) == [t |-> "int", x |-> x]
NoVal == [t |-> "none", x |-> 0]
\* float('nan'): a float that every comparison answers False for
FloatNaN == [t |-> "nan", x |-> 0]

\* a 2-tuple (a, b)
Tuple2(a, b) == [kind |-> "tuple", a |-> a, b |-> b]
\* a bare float where a tuple is expected, e.g. the csv cell 3.5
Scalar(x) == [kind |-> "float", a |-> Float(x), b |-> NoVal]
\* NaN: what a left join leaves in the rows the right side does not match
NaN == [kind |-> "nan", a |-> NoVal, b |-> NoVal]

----------------------------------------------------------------------------
(* The graph held by the GraphHandler *)

Edges == {"e1", "e2"}

\* geometric length of the edges (hundredths of a metre)
EdgeLength(e) == IF e = "e1" THEN 200 ELSE 100

\* edge_gdf as loaded: one row per edge, no aqi_exp column yet.  src is a
\* history field: the hour of the file the row's aqi_exp was joined from.
InitEdgeGdf ==
  << [uvkey |-> "e1", aqi_exp |-> NaN, src |-> None],
     [uvkey |-> "e2", aqi_exp |-> NaN, src |-> None] >>

----------------------------------------------------------------------------
(* aq_exposures.py: the exposure cost model *)

\* get_aq_sensitivities(subset=False), in tenths: 0.2, 0.5, 1, 3, 6, 10, 20, 35
get_aq_sensitivities == << 2, 5, 10, 30, 60, 100, 200, 350 >>

\* round(n / d) to the nearest integer, ties to the even one (Python 3 round)
RoundHalfEven(n, d) ==
  LET q == n \div d
      r == n % d
  IN  IF 2 * r < d THEN q
      ELSE IF 2 * r > d THEN q + 1
      ELSE IF q % 2 = 0 THEN q ELSE q + 1

\* get_aqi_coeff(aqi) = (aqi - 1) / 4, kept as the fraction num / den
get_aqi_coeff(aqi) == [num |-> aqi - 100, den |-> 400]

\* get_aqi_cost(length, aqi_coeff=..., sen=...) = round(length * aqi_coeff * sen, 2)
get_aqi_cost(length, aqi_coeff, sen) ==
  RoundHalfEven(length * aqi_coeff.num * sen, aqi_coeff.den * 10)

\* get_aqi_costs(aqi_exp, sens, length): the cost 'aqc_<sen>' for every sen of
\* sens, as a function of the sensitivity that names the column
get_aqi_costs(aqi_exp, sens, length) ==
  LET aqi_coeff == get_aqi_coeff(aqi_exp.a.x)
  IN  [ sen \in { sens[i] : i \in DOMAIN sens } |->
          RoundHalfEven(length + get_aqi_cost(aqi_exp.b.x, aqi_coeff, sen), 1) ]

\* get_aqi_class with the class limits taken into the lower class
get_aqi_class_limits_below(aqi) ==
  LET le(v) == aqi.t # "nan" /\ aqi.x <= v
      ge(v) == aqi.t # "nan" /\ aqi.x >= v
  IN  IF le(200) THEN 1
      ELSE IF le(300) THEN 2
      ELSE IF le(400) THEN 3
      ELSE IF le(500) THEN 4
      ELSE IF ge(500) THEN 5
      ELSE 0

\* get_aqi_class(aqi): the comparisons of the if chain, each False for NaN
get_aqi_class(aqi) ==
  LET lt(v) == aqi.t # "nan" /\ aqi.x < v
      ge(v) == aqi.t # "nan" /\ aqi.x >= v
  IN  IF lt(200) THEN 1
      ELSE IF lt(300) THEN 2
      ELSE IF lt(400) THEN 3
      ELSE IF lt(500) THEN 4
      ELSE IF ge(500) THEN 5
      ELSE 0

----------------------------------------------------------------------------
(* The upstream directory aqi_dir *)

\* get_expected_aqi_data_name: 'aqi_' + <UTC hour> + '.csv'
FileName(h) == << "aqi", h >>
HourOfFile(name) == name[2]
HourAt(time) == time \div (SecsPerHour * TicksPerSec)
get_expected_aqi_data_name(time) == FileName(HourAt(time))

\* the empty string, and the None that new_aqi_data_available returns
EmptyStr == << >>
NoneCsv == << "None" >>

\* aqi_dir does not exist yet, or cannot be read
NoDir == [h \in Hours |-> "nodir"]

\* what the upstream pipeline may write into the file of an hour
Contents == { "full", "partial", "degraded", "badshape", "malformed" }

\* pd.read_csv with the literal_eval converters raises on text that does not
\* parse
Parses(content) == content # "malformed"

\* the rows (uvkey, aqi_exp) that pd.read_csv returns for a file
Batch(content) ==
  CASE content = "full" ->
         << [uvkey |-> "e1", aqi_exp |-> Tuple2(Float(300), Float(200))],
            [uvkey |-> "e2", aqi_exp |-> Tuple2(Float(500), Float(100))] >>
    [] content = "partial" ->
         << [uvkey |-> "e1", aqi_exp |-> Tuple2(Float(200), Float(100))] >>
    [] content = "degraded" ->
         << [uvkey |-> "e1", aqi_exp |-> Tuple2(Float(50), Float(200))],
            [uvkey |-> "e2", aqi_exp |-> Tuple2(IntV(300), Float(100))] >>
    [] content = "badshape" ->
         << [uvkey |-> "e1", aqi_exp |-> Tuple2(Float(300), Float(200))],
            [uvkey |-> "e2", aqi_exp |-> Scalar(350)] >>
    [] OTHER -> << >>

----------------------------------------------------------------------------
(* Data frame operations of read_update_aqi_to_graph *)

\* df['uvkey'].nunique()
nunique(rows) == Cardinality({ rows[i].uvkey : i \in DOMAIN rows })

\* validate_aqi_exp with the test of aqi_exp[0] left out
validate_aqi_exp_index_unchecked(aqi_exp) ==
  IF aqi_exp.kind # "tuple" THEN FALSE
  ELSE IF aqi_exp.b.t # "float" THEN FALSE
  ELSE TRUE

\* validate_aqi_exps: the nested validate_aqi_exp of one value
validate_aqi_exp(aqi_exp) ==
  IF aqi_exp.kind # "tuple" THEN FALSE
  ELSE IF aqi_exp.a.t # "float" THEN FALSE
  ELSE IF aqi_exp.b.t # "float" THEN FALSE
  ELSE TRUE

\* validate_aqi_exps(df): the row count equals the count of rows whose
\* aqi_exp passes validate_aqi_exp
validate_aqi_exps(rows) ==
  LET row_count == Len(rows)
      aqi_exp_count ==
        Cardinality({ i \in DOMAIN rows : validate_aqi_exp(rows[i].aqi_exp) })
  IN  row_count = aqi_exp_count

\* MergeRow keeping only the first matching right row
MergeRow_first_match(row, right, hour) ==
  LET hits == SelectSeq(right, LAMBDA r : r.uvkey = row.uvkey)
  IN  IF hits = << >>
      THEN << [uvkey |-> row.uvkey, aqi_exp |-> NaN, src |-> hour] >>
      ELSE << [uvkey |-> row.uvkey, aqi_exp |-> hits[1].aqi_exp, src |-> hour] >>

\* the rows of one left row in left.merge(right, on='uvkey', how='left'):
\* one per matching right row, in the order of right, or a single row with
\* NaN when nothing matches
MergeRow(row, right, hour) ==
  LET hits == SelectSeq(right, LAMBDA r : r.uvkey = row.uvkey)
  IN  IF hits = << >>
      THEN << [uvkey |-> row.uvkey, aqi_exp |-> NaN, src |-> hour] >>
      ELSE [ i \in DOMAIN hits |->
               [uvkey |-> row.uvkey, aqi_exp |-> hits[i].aqi_exp, src |-> hour] ]

\* edge_gdf_copy.drop(columns=['aqi_exp']).merge(edge_aqi_updates, on='uvkey',
\* how='left'): the old aqi_exp of the left rows is dropped, the order of
\* the left rows is kept
RECURSIVE LeftMerge(_, _, _)
LeftMerge(left, right, hour) ==
  IF left = << >> THEN << >>
  ELSE MergeRow(Head(left), right, hour) \o LeftMerge(Tail(left), right, hour)

\* get_aq_update_attrs raises where aqi_exp[0], aqi_exp[1] cannot be taken
Subscriptable(aqi_exp) == aqi_exp.kind = "tuple"

\* get_aq_update_attrs(aqi_exp): { 'aqi': aqi_exp[0], **aq_costs } with the
\* costs computed for length = aqi_exp[1]
get_aq_update_attrs(aqi_exp) ==
  [ aqi |-> aqi_exp.a,
    aqc |-> get_aqi_costs(aqi_exp, get_aq_sensitivities, aqi_exp.b.x) ]

\* the attributes of a graph edge that has had no AQI update
NoAttrs ==
  [ aq |-> FALSE, aqi |-> NoVal,
    aqc |-> [ sen \in { get_aq_sensitivities[i] : i \in DOMAIN get_aq_sensitivities } |-> 0 ],
    src |-> None ]

\* GraphHandler.set_edge_gdf(gdf): the handler's edge_gdf becomes gdf
set_edge_gdf(gdf) == gdf

\* GraphHandler.update_edge_attr_to_graph(edge_gdf=updates, from_dict=True,
\* df_attr='aq_updates'): row by row, the dictionary of the row is written to
\* the attributes of the graph edge the row names; rows naming no edge of the
\* graph are skipped
RECURSIVE update_edge_attr_to_graph(_, _, _)
update_edge_attr_to_graph(G, updates, hour) ==
  IF updates = << >> THEN G
  ELSE LET row == Head(updates)
           attrs == get_aq_update_attrs(row.aqi_exp)
           G1 == IF row.uvkey \in DOMAIN G
                 THEN [ G EXCEPT ![row.uvkey] =
                          [ aq |-> TRUE, aqi |-> attrs.aqi, aqc |-> attrs.aqc,
                            src |-> hour ] ]
                 ELSE G
       IN  update_edge_attr_to_graph(G1, Tail(updates), hour)

----------------------------------------------------------------------------
(* State *)

VARIABLES
  now,                  \* datetime.utcnow(), in ticks
  files,                \* aqi_dir: the content of the file of every hour
  aqi_update_status,    \* self.aqi_update_status
  aqi_data_wip,         \* self.aqi_data_wip
  aqi_data_latest,      \* self.aqi_data_latest
  aqi_data_updatetime,  \* self.aqi_data_updatetime
  edge_gdf,             \* self.G.edge_gdf
  graph,                \* the edge attributes of self.G.graph
  inst,                 \* the job instances: where each stands, and its locals
  call,                 \* a call of a function of aq_exposures.py, or of a
                        \* data frame operation, made outside the updater
  tick_status           \* history: the status the latest tick arrived at and
                        \* stored at line 116

vars ==
  << now, files, aqi_update_status, aqi_data_wip, aqi_data_latest,
     aqi_data_updatetime, edge_gdf, graph, inst, call, tick_status >>

\* a status message: its text and the file name it ends with
Status(msg, name) == [msg |-> msg, file |-> name]

\* a call that has not returned yet: the function and its argument
Call(fn, arg) == [fn |-> fn, arg |-> arg, returned |-> FALSE, ret |-> << >>]
\* the call has returned v
Return(c, v) == [c EXCEPT !.returned = TRUE, !.ret = v]
NoCall == Call("none", << >>)

\* aqi_data_latest and aqi_data_updatetime together
Applied(latest, updatetime) == [latest |-> latest, updatetime |-> updatetime]
NoStart == Applied(EmptyStr, None)

\* edge_gdf and the graph together
Dataset(gdf, G) == [gdf |-> gdf, graph |-> G]
NoDataset == Dataset(<< >>, << >>)

\* A job instance that is not running.  The fields of an instance:
\*   pc                where it stands
\*   new_aqi_data_csv  local of maybe_read_update_aqi_to_graph
\*   edge_aqi_updates  local of read_update_aqi_to_graph
\*   aqi_data_ok       local of read_update_aqi_to_graph
\*   sleep_until       the end of time.sleep(60)
\*   raised_at         history: the statement that raised in this run (kept
\*                     by an instance that ended with the exception of
\*                     listdir until the worker runs the next instance)
\*   last_good         history, kept while the cycle may still fail: the
\*                     dataset as it was when the cycle started or, if a
\*                     cycle has succeeded since, as that cycle left it
\*   at_start          history, kept while the cycle may still fail:
\*                     aqi_data_latest and aqi_data_updatetime as they were
\*                     when the cycle started or, if another cycle has set
\*                     them since, as that cycle set them
IdleInst ==
  [ pc |-> "idle", new_aqi_data_csv |-> NoneCsv, edge_aqi_updates |-> << >>,
    aqi_data_ok |-> TRUE, sleep_until |-> 0, raised_at |-> "none",
    last_good |-> NoDataset, at_start |-> NoStart ]

\* The instances are interchangeable workers of the scheduler's pool: they
\* are kept in a fixed order, so that two states that differ only in which
\* worker runs which instance are one state.
PcRank(p) ==
  CASE p = "idle" -> 0 [] p = "call" -> 1 [] p = "wip" -> 2
    [] p = "joined" -> 3 [] p = "updated" -> 4 [] p = "timed" -> 5
    [] p = "latest" -> 6 [] OTHER -> 7

Rank(r) ==
  2 * ( PcRank(r.pc) * (MaxHour + 2)
        + (IF r.new_aqi_data_csv = NoneCsv THEN 0 ELSE r.new_aqi_data_csv[2] + 1) )
    + (IF r.raised_at = "listdir" THEN 1 ELSE 0)

Ordered(f) == SortSeq(f, LAMBDA a, b : Rank(a) > Rank(b))

Init ==
  /\ now = 0
  /\ files \in { [h \in Hours |-> "absent"], NoDir }
  /\ aqi_update_status = Status("", EmptyStr)
  /\ aqi_data_wip = EmptyStr
  /\ aqi_data_latest = EmptyStr
  /\ aqi_data_updatetime = None
  /\ edge_gdf = InitEdgeGdf
  /\ graph = [e \in Edges |-> NoAttrs]
  /\ inst = [t \in Threads |-> IdleInst]
  /\ call = NoCall
  /\ tick_status = Status("", EmptyStr)

----------------------------------------------------------------------------
(* The environment: the clock and the upstream pipeline *)

\* listdir(self.aqi_dir) raises when aqi_dir cannot be listed
listdir_raises == files = NoDir

\* listdir(self.aqi_dir)
listdir == { FileName(h) : h \in { g \in Hours : files[g] \notin {"absent", "nodir"} } }

\* The directory as far as the updater can still see it: only the file of
\* the current hour is looked for, and only an instance that was given a
\* name and has not read the file yet opens one.  Every other file can never
\* be observed again and is dropped from the state.
Visible(f, time, is) ==
  [ h \in Hours |->
      IF \/ h = HourAt(time)
         \/ \E t \in Threads :
              /\ is[t].pc \in {"call", "wip"}
              /\ is[t].new_aqi_data_csv = FileName(h)
      THEN f[h]
      ELSE IF f[h] = "nodir" THEN "nodir" ELSE "absent" ]

\* datetime.utcnow() moves on
ClockAdvance ==
  /\ \E time \in TimePoints : time > now /\ now' = time
  /\ files' = Visible(files, now', inst)
  /\ UNCHANGED << call, tick_status, aqi_update_status, aqi_data_wip, aqi_data_latest,
                  aqi_data_updatetime, edge_gdf, graph, inst >>

\* the pipeline writes the file of the current hour into aqi_dir
UpstreamWrites ==
  /\ files[HourAt(now)] = "absent"
  /\ \E content \in Contents : files' = [files EXCEPT ![HourAt(now)] = content]
  /\ UNCHANGED << call, tick_status, now, aqi_update_status, aqi_data_wip, aqi_data_latest,
                  aqi_data_updatetime, edge_gdf, graph, inst >>

\* the pipeline creates aqi_dir (or mounts it, or makes it readable), empty
DirCreated ==
  /\ files = NoDir
  /\ files' = [h \in Hours |-> "absent"]
  /\ UNCHANGED << call, tick_status, now, aqi_update_status, aqi_data_wip, aqi_data_latest,
                  aqi_data_updatetime, edge_gdf, graph, inst >>

----------------------------------------------------------------------------
(* GraphAqiUpdater *)

\* get_aqi_updated_since_secs with the round left out: int() truncates
get_aqi_updated_since_secs_truncated == (now - aqi_data_updatetime) \div TicksPerSec

\* get_aqi_updated_since_secs (aqi_data_updatetime is not None):
\* int(round((utcnow() - aqi_data_updatetime).total_seconds()))
get_aqi_updated_since_secs == RoundHalfEven(now - aqi_data_updatetime, TicksPerSec)

bool_graph_aqi_is_up_to_date ==
  IF aqi_data_updatetime = None THEN FALSE
  ELSE IF get_aqi_updated_since_secs < FreshLimitSecs THEN TRUE
  ELSE FALSE

\* get_aqi_update_time_str: strftime('%y/%m/%d %H:%M:%S') of
\* aqi_data_updatetime, the time in whole seconds, or None
get_aqi_update_time_str ==
  IF aqi_data_updatetime # None THEN aqi_data_updatetime \div TicksPerSec ELSE None

\* get_aqi_update_status_response, as a caller in another thread gets it in
\* the current state
get_aqi_update_status_response ==
  [ b_updated |-> bool_graph_aqi_is_up_to_date,
    latest_data |-> aqi_data_latest,
    update_time_utc |-> get_aqi_update_time_str,
    updated_since_secs |->
      IF aqi_data_updatetime # None THEN get_aqi_updated_since_secs ELSE None ]

\* new_aqi_data_available with the test of aqi_data_wip left out
new_aqi_data_available_wip_untested ==
  LET aqi_data_expected == get_expected_aqi_data_name(now)
  IN  IF aqi_data_expected = aqi_data_latest
      THEN [ status |-> Status("latest AQI was updated to graph", EmptyStr),
             new_aqi_available |-> NoneCsv ]
      ELSE IF aqi_data_expected \in listdir
      THEN [ status |-> Status("AQI update will be done from: ", aqi_data_expected),
             new_aqi_available |-> aqi_data_expected ]
      ELSE [ status |-> Status("expected AQI data is not available", aqi_data_expected),
             new_aqi_available |-> NoneCsv ]

\* new_aqi_data_available: the status message it arrives at and the name it
\* returns
new_aqi_data_available ==
  LET aqi_data_expected == get_expected_aqi_data_name(now)
  IN  IF aqi_data_expected = aqi_data_latest
      THEN [ status |-> Status("latest AQI was updated to graph", EmptyStr),
             new_aqi_available |-> NoneCsv ]
      ELSE IF aqi_data_expected = aqi_data_wip
      THEN [ status |-> Status("AQI update already in progress", EmptyStr),
             new_aqi_available |-> NoneCsv ]
      ELSE IF aqi_data_expected \in listdir
      THEN [ status |-> Status("AQI update will be done from: ", aqi_data_expected),
             new_aqi_available |-> aqi_data_expected ]
      ELSE [ status |-> Status("expected AQI data is not available", aqi_data_expected),
             new_aqi_available |-> NoneCsv ]

\* new_aqi_data_available raises: line 105 is reached and listdir raises
new_aqi_data_available_raises ==
  LET aqi_data_expected == get_expected_aqi_data_name(now)
  IN  /\ aqi_data_expected # aqi_data_latest
      /\ aqi_data_expected # aqi_data_wip
      /\ listdir_raises

\* the instance is between line 124 and line 160 of read_update_aqi_to_graph
InCycle(t) == inst[t].pc \in { "wip", "joined", "updated", "timed", "latest" }

\* the scheduler starts a job instance (at most max_instances run at once):
\* it runs new_aqi_data_available and, given a file name, goes on to call
\* read_update_aqi_to_graph
maybe_read_update_aqi_to_graph(t) ==
  /\ inst[t].pc = "idle"
  /\ \A u \in Threads : u < t => inst[u].pc # "idle"
  /\ ~new_aqi_data_available_raises
  /\ LET r == new_aqi_data_available
     IN  /\ aqi_update_status' = r.status
         /\ tick_status' = r.status
         /\ inst' = Ordered([inst EXCEPT ![t] =
              IF r.new_aqi_available # NoneCsv
              THEN [ IdleInst EXCEPT !.pc = "call",
                                     !.new_aqi_data_csv = r.new_aqi_available ]
              ELSE IdleInst ])
  /\ UNCHANGED << call, now, files, aqi_data_wip, aqi_data_latest,
                  aqi_data_updatetime, edge_gdf, graph >>

\* the scheduler starts a job instance and new_aqi_data_available raises at
\* line 105: line 56 is outside the try, so the exception leaves
\* maybe_read_update_aqi_to_graph and ends the job instance; lines 111-116
\* are not reached
ListdirRaises(t) ==
  /\ inst[t].pc = "idle"
  /\ \A u \in Threads : u < t => inst[u].pc # "idle"
  /\ new_aqi_data_available_raises
  /\ inst' = Ordered([inst EXCEPT ![t] = [ IdleInst EXCEPT !.raised_at = "listdir" ]])
  /\ UNCHANGED << call, tick_status, now, files, aqi_update_status, aqi_data_wip, aqi_data_latest,
                  aqi_data_updatetime, edge_gdf, graph >>

\* line 124: self.aqi_data_wip = aqi_updates_csv
SetWip(t) ==
  /\ inst[t].pc = "call"
  /\ aqi_data_wip' = inst[t].new_aqi_data_csv
  /\ inst' = Ordered([inst EXCEPT
                ![t].pc = "wip",
                ![t].last_good = Dataset(edge_gdf, graph),
                ![t].at_start = Applied(aqi_data_latest, aqi_data_updatetime)])
  /\ UNCHANGED << call, tick_status, now, files, aqi_update_status, aqi_data_latest,
                  aqi_data_updatetime, edge_gdf, graph >>

\* the except branch recording the file that failed as the latest
Except_records_latest(t, where) ==
  /\ aqi_update_status' =
       Status("could not complete AQI update from: ", inst[t].new_aqi_data_csv)
  /\ aqi_data_latest' = inst[t].new_aqi_data_csv
  /\ inst' = Ordered([inst EXCEPT ![t] =
       [ IdleInst EXCEPT !.pc = "sleeping",
                         !.new_aqi_data_csv = inst[t].new_aqi_data_csv,
                         !.sleep_until = now + SleepSecs * TicksPerSec,
                         !.raised_at = where ] ])
  /\ files' = Visible(files, now, inst')
  /\ UNCHANGED << call, tick_status, now, aqi_data_wip, aqi_data_updatetime,
                  edge_gdf, graph >>

\* lines 60-64: the except branch of maybe_read_update_aqi_to_graph
Except(t, where) ==
  /\ aqi_update_status' =
       Status("could not complete AQI update from: ", inst[t].new_aqi_data_csv)
  /\ inst' = Ordered([inst EXCEPT ![t] =
       [ IdleInst EXCEPT !.pc = "sleeping",
                         !.new_aqi_data_csv = inst[t].new_aqi_data_csv,
                         !.sleep_until = now + SleepSecs * TicksPerSec,
                         !.raised_at = where ] ])
  /\ files' = Visible(files, now, inst')
  /\ UNCHANGED << call, tick_status, now, aqi_data_wip, aqi_data_latest, aqi_data_updatetime,
                  edge_gdf, graph >>

\* line 127: pd.read_csv raises
ReadCsvRaises(t) ==
  /\ inst[t].pc = "wip"
  /\ ~Parses(files[HourOfFile(inst[t].new_aqi_data_csv)])
  /\ Except(t, "read_csv")

\* lines 127-147: the file is read, the key counts are compared and the
\* exposures validated (both only logged), the exposures are joined to a
\* copy of edge_gdf and the copy is handed to the graph handler
JoinAndSet(t) ==
  /\ inst[t].pc = "wip"
  /\ Parses(files[HourOfFile(inst[t].new_aqi_data_csv)])
  /\ LET hour == HourOfFile(inst[t].new_aqi_data_csv)
         updates == Batch(files[hour])
         edge_gdf_copy == LeftMerge(edge_gdf, updates, hour)
     IN  /\ inst' = Ordered([inst EXCEPT
                       ![t].pc = "joined",
                       ![t].edge_aqi_updates = updates,
                       ![t].aqi_data_ok = validate_aqi_exps(updates)])
         /\ edge_gdf' = set_edge_gdf(edge_gdf_copy)
  /\ files' = Visible(files, now, inst')
  /\ UNCHANGED << call, tick_status, now, aqi_update_status, aqi_data_wip, aqi_data_latest,
                  aqi_data_updatetime, graph >>

\* line 155 raises: get_aq_update_attrs meets a value it cannot subscript
AqUpdatesRaise(t) ==
  /\ inst[t].pc = "joined"
  /\ \E i \in DOMAIN inst[t].edge_aqi_updates :
       ~Subscriptable(inst[t].edge_aqi_updates[i].aqi_exp)
  /\ Except(t, "aq_updates")

\* lines 150-157: edge_gdf is validated again (only logged), the attributes
\* of every row of the update are computed and written to the graph
UpdateGraph(t) ==
  /\ inst[t].pc = "joined"
  /\ \A i \in DOMAIN inst[t].edge_aqi_updates :
       Subscriptable(inst[t].edge_aqi_updates[i].aqi_exp)
  /\ graph' = update_edge_attr_to_graph(graph, inst[t].edge_aqi_updates,
                                        HourOfFile(inst[t].new_aqi_data_csv))
  /\ inst' = Ordered([inst EXCEPT ![t].pc = "updated",
                                  ![t].last_good = NoDataset,
                                  ![t].at_start = NoStart])
  /\ UNCHANGED << call, tick_status, now, files, aqi_update_status, aqi_data_wip, aqi_data_latest,
                  aqi_data_updatetime, edge_gdf >>

\* line 158: self.aqi_data_updatetime = datetime.utcnow().  The write is
\* that of a cycle that can no longer fail: it is what a cycle still under
\* way is to find if it fails.
SetUpdatetime(t) ==
  /\ inst[t].pc = "updated"
  /\ aqi_data_updatetime' = now
  /\ inst' = Ordered([ u \in Threads |->
       IF u = t THEN [ inst[t] EXCEPT !.pc = "timed" ]
       ELSE IF inst[u].pc \in {"wip", "joined"}
       THEN [ inst[u] EXCEPT !.at_start = Applied(aqi_data_latest, now) ]
       ELSE inst[u] ])
  /\ UNCHANGED << call, tick_status, now, files, aqi_update_status, aqi_data_wip, aqi_data_latest,
                  edge_gdf, graph >>

\* line 159: self.aqi_data_latest = aqi_updates_csv
SetLatest(t) ==
  /\ inst[t].pc = "timed"
  /\ aqi_data_latest' = inst[t].new_aqi_data_csv
  /\ inst' = Ordered([ u \in Threads |->
       IF u = t THEN [ inst[t] EXCEPT !.pc = "latest" ]
       ELSE IF inst[u].pc \in {"wip", "joined"}
       THEN [ inst[u] EXCEPT !.at_start =
                Applied(inst[t].new_aqi_data_csv, aqi_data_updatetime) ]
       ELSE inst[u] ])
  /\ UNCHANGED << call, tick_status, now, files, aqi_update_status, aqi_data_wip,
                  aqi_data_updatetime, edge_gdf, graph >>

\* line 160 left out: the job instance ends and the marker stays
ClearWip_keeps_wip(t) ==
  /\ inst[t].pc = "latest"
  /\ inst' = Ordered([ u \in Threads |->
       IF u = t THEN IdleInst
       ELSE IF inst[u].last_good # NoDataset
       THEN [ inst[u] EXCEPT !.last_good = Dataset(edge_gdf, graph) ]
       ELSE inst[u] ])
  /\ UNCHANGED << call, tick_status, now, files, aqi_update_status, aqi_data_wip,
                  aqi_data_latest, aqi_data_updatetime, edge_gdf, graph >>

\* line 160: self.aqi_data_wip = '', and the job instance ends.  The cycle
\* has succeeded: the dataset it leaves is the last good one for every
\* cycle still under way.
ClearWip(t) ==
  /\ inst[t].pc = "latest"
  /\ aqi_data_wip' = EmptyStr
  /\ inst' = Ordered([ u \in Threads |->
       IF u = t THEN IdleInst
       ELSE IF inst[u].last_good # NoDataset
       THEN [ inst[u] EXCEPT !.last_good = Dataset(edge_gdf, graph) ]
       ELSE inst[u] ])
  /\ UNCHANGED << call, tick_status, now, files, aqi_update_status, aqi_data_latest,
                  aqi_data_updatetime, edge_gdf, graph >>

\* line 64: time.sleep(60) returns, and the job instance ends
EndSleep(t) ==
  /\ inst[t].pc = "sleeping"
  /\ now >= inst[t].sleep_until
  /\ inst' = Ordered([inst EXCEPT ![t] = IdleInst])
  /\ UNCHANGED << call, tick_status, now, files, aqi_update_status, aqi_data_wip, aqi_data_latest,
                  aqi_data_updatetime, edge_gdf, graph >>

Next ==
  \/ ClockAdvance
  \/ UpstreamWrites
  \/ DirCreated
  \/ \E t \in Threads : maybe_read_update_aqi_to_graph(t)
  \/ \E t \in Threads : ListdirRaises(t)
  \/ \E t \in Threads : SetWip(t)
  \/ \E t \in Threads : ReadCsvRaises(t)
  \/ \E t \in Threads : JoinAndSet(t)
  \/ \E t \in Threads : AqUpdatesRaise(t)
  \/ \E t \in Threads : UpdateGraph(t)
  \/ \E t \in Threads : SetUpdatetime(t)
  \/ \E t \in Threads : SetLatest(t)
  \/ \E t \in Threads : ClearWip(t)
  \/ \E t \in Threads : EndSleep(t)

Spec == Init /\ [][Next]_vars

\* a job instance executes its next statement (lines 56-64 and 124-160)
Statement(t) ==
  \/ ListdirRaises(t)
  \/ SetWip(t)
  \/ ReadCsvRaises(t)
  \/ JoinAndSet(t)
  \/ AqUpdatesRaise(t)
  \/ UpdateGraph(t)
  \/ SetUpdatetime(t)
  \/ SetLatest(t)
  \/ ClearWip(t)
  \/ EndSleep(t)

\* The scheduling the code relies on, in its weakest form: the clock, the
\* interval trigger and the job instances do not all halt while one of them
\* can take a step (the clock moves on, a tick is started when a job
\* instance is free, a job instance executes its next statement, time.sleep
\* returns).  Every scheduler that is fair to each thread is fair in this
\* sense.  Nothing is assumed of the upstream pipeline.
Fairness ==
  WF_vars(\/ ClockAdvance
          \/ \E t \in Threads : maybe_read_update_aqi_to_graph(t)
          \/ \E t \in Threads : Statement(t))

FairSpec == Init /\ [][Next]_vars /\ Fairness

----------------------------------------------------------------------------
(* The functions on their own: one call, its argument drawn from a bounded  *)
(* set of values, outside any update cycle                                 *)

\* the values an aqi_exp cell can hold after pd.read_csv or a merge
ExpValues ==
  { Tuple2(Float(a), Float(100)) : a \in { -100, 0, 50, 99, 100, 300 } }
    \cup { Tuple2(Float(300), Float(-100)), Tuple2(IntV(300), Float(100)),
           Tuple2(Float(300), IntV(100)), Scalar(350), NaN }

\* the keys a file can name: the edges of the graph and a key of no edge
FileKeys == Edges \cup { "e9" }

\* the frames (uvkey, aqi_exp) of at most MaxRows rows
Frames ==
  UNION { [ 1..n -> [uvkey : FileKeys, aqi_exp : ExpValues] ] : n \in 0..MaxRows }

\* the updater's validate_aqi_exps is called on a frame
CallValidateAqiExps ==
  /\ call.fn = "validate_aqi_exps" /\ ~call.returned
  /\ call' = Return(call, validate_aqi_exps(call.arg))
  /\ UNCHANGED << now, files, aqi_update_status, aqi_data_wip, aqi_data_latest,
                  aqi_data_updatetime, edge_gdf, graph, inst, tick_status >>

\* the pollution indices get_aqi_class is called with
AqiInputs == { Float(x) : x \in (0 - MaxNegAqi)..MaxAqi } \cup { FloatNaN }

\* get_aqi_class is called on a pollution index
CallGetAqiClass ==
  /\ call.fn = "get_aqi_class" /\ ~call.returned
  /\ call' = Return(call, get_aqi_class(call.arg))
  /\ UNCHANGED << now, files, aqi_update_status, aqi_data_wip, aqi_data_latest,
                  aqi_data_updatetime, edge_gdf, graph, inst, tick_status >>

\* the edge_gdf a merge is made with: as loaded, or as an earlier merge with
\* a file that named e1 twice left it
LeftFrames ==
  { InitEdgeGdf,
    LeftMerge(InitEdgeGdf,
              << [uvkey |-> "e1", aqi_exp |-> Tuple2(Float(300), Float(200))],
                 [uvkey |-> "e1", aqi_exp |-> Tuple2(Float(500), Float(200))] >>, 0) }

\* lines 141-145: the exposures of a file are joined to a copy of edge_gdf
CallMerge ==
  /\ call.fn = "merge" /\ ~call.returned
  /\ call' = Return(call, LeftMerge(call.arg.left, call.arg.right, 1))
  /\ UNCHANGED << now, files, aqi_update_status, aqi_data_wip, aqi_data_latest,
                  aqi_data_updatetime, edge_gdf, graph, inst, tick_status >>

InitFn ==
  /\ now = 0
  /\ files = [h \in Hours |-> "absent"]
  /\ aqi_update_status = Status("", EmptyStr)
  /\ aqi_data_wip = EmptyStr
  /\ aqi_data_latest = EmptyStr
  /\ aqi_data_updatetime = None
  /\ edge_gdf = InitEdgeGdf
  /\ graph = [e \in Edges |-> NoAttrs]
  /\ inst = [t \in Threads |-> IdleInst]
  /\ tick_status = Status("", EmptyStr)
  /\ \/ call \in { Call("validate_aqi_exps", rows) : rows \in Frames }
     \/ call \in { Call("get_aqi_class", aqi) : aqi \in AqiInputs }
     \/ call \in { Call("merge", [left |-> l, right |-> r]) :
                     l \in LeftFrames, r \in Frames }

NextFn ==
  \/ CallValidateAqiExps
  \/ CallGetAqiClass
  \/ CallMerge

SpecFn == InitFn /\ [][NextFn]_vars

----------------------------------------------------------------------------
(* Properties *)

\* the distinct edge keys of a frame
Keys(rows) == { rows[i].uvkey : i \in DOMAIN rows }

\* the time since the last update, in ticks
Elapsed == now - aqi_data_updatetime

\* C1: in every state at most one job instance is inside
\* read_update_aqi_to_graph, however the timer ticks overlap.
SingleFlight == Cardinality({ t \in Threads : InCycle(t) }) <= 1

\* C2: a cycle that ends in an exception leaves edge_gdf and the attributes
\* of the graph exactly as the last successful cycle left them (as they were
\* when the cycle started, if no cycle has succeeded since).
FailedCycleMutatesNothing ==
  [][ \A t \in Threads :
        (ReadCsvRaises(t) \/ AqUpdatesRaise(t))
          => Dataset(edge_gdf', graph') = inst[t].last_good ]_vars

\* C3: at every instant the exposure of every row of edge_gdf and the
\* attributes of the edge of that row in the graph come from the same file.
AtomicPublish ==
  \A i \in DOMAIN edge_gdf : graph[edge_gdf[i].uvkey].src = edge_gdf[i].src

\* C4: once aqi_data_latest names the file of an hour, no step sets it to the
\* file of an earlier hour.
LatestNeverRegresses ==
  [][ aqi_data_latest # EmptyStr
        => /\ aqi_data_latest' # EmptyStr
           /\ HourOfFile(aqi_data_latest') >= HourOfFile(aqi_data_latest) ]_vars

\* C5: the files whose cycle completes form a strictly increasing sequence
\* of hours: a cycle that completes (line 159) is for a later hour than the
\* file completed before it.
AppliedInIncreasingOrder ==
  [][ \A t \in Threads :
        SetLatest(t)
          => \/ aqi_data_latest = EmptyStr
             \/ HourOfFile(aqi_data_latest) < HourOfFile(inst[t].new_aqi_data_csv) ]_vars

\* C6: a batch that could be parsed never ends its cycle in an exception,
\* whatever the validation says of it: the only statement that raises is the
\* read of the file.
ParsedBatchIsPublished ==
  \A t \in Threads : inst[t].pc = "sleeping" => inst[t].raised_at = "read_csv"

\* C7: when the cycle of a batch with fewer distinct keys than edge_gdf has
\* written the graph, and edge_gdf is the frame this cycle joined, every
\* edge the batch does not name has a NaN exposure and no cost attributes.
AbsentEdgesHaveNoCosts ==
  \A t \in Threads :
    ( /\ inst[t].pc = "updated"
      /\ nunique(inst[t].edge_aqi_updates) < nunique(edge_gdf)
      /\ \A i \in DOMAIN edge_gdf :
           edge_gdf[i].src = HourOfFile(inst[t].new_aqi_data_csv) )
    => \A i \in DOMAIN edge_gdf :
         edge_gdf[i].uvkey \notin Keys(inst[t].edge_aqi_updates)
           => /\ edge_gdf[i].aqi_exp = NaN
              /\ ~graph[edge_gdf[i].uvkey].aq

\* C8: when a cycle has succeeded, every edge of edge_gdf has, for every
\* sensitivity, the cost get_aqi_costs gives for its exposure with the
\* geometric length of the edge as the base length.
CostsFromGeometricLength ==
  \A t \in Threads :
    inst[t].pc = "latest"
    => \A i \in DOMAIN edge_gdf :
         LET row == edge_gdf[i]
         IN  /\ row.aqi_exp.kind = "tuple"
             /\ graph[row.uvkey].aq
             /\ graph[row.uvkey].aqc =
                  get_aqi_costs(row.aqi_exp, get_aq_sensitivities,
                                EdgeLength(row.uvkey))

\* C9 as stated: the graph counts as up to date exactly when an update has
\* been made and less than 70 minutes have passed since.
FreshExactlyBelowLimit ==
  bool_graph_aqi_is_up_to_date
    = ( /\ aqi_data_updatetime # None
        /\ Elapsed < FreshLimitSecs * TicksPerSec )

\* C9 as amended: the graph counts as up to date exactly when an update has
\* been made and less than 70 minutes minus half a second have passed since
\* (the elapsed time is rounded to whole seconds before it is compared).
FreshBelowLimitLessHalfSecond ==
  bool_graph_aqi_is_up_to_date
    = ( /\ aqi_data_updatetime # None
        /\ 2 * Elapsed < (2 * FreshLimitSecs - 1) * TicksPerSec )

\* C9, the case: an update was made between 4199 and 4200 seconds ago and
\* the graph no longer counts as up to date.
StaleJustBelowLimit ==
  /\ aqi_data_updatetime # None
  /\ Elapsed > (FreshLimitSecs - 1) * TicksPerSec
  /\ Elapsed < FreshLimitSecs * TicksPerSec
  /\ ~bool_graph_aqi_is_up_to_date

\* C10: whenever no instance is inside read_update_aqi_to_graph,
\* aqi_data_wip is the empty string.
WipEmptyOutsideCycle ==
  (\A t \in Threads : ~InCycle(t)) => aqi_data_wip = EmptyStr

\* some job instance is inside time.sleep(60) of the except branch
InBackoff ==
  \E u \in Threads : inst[u].pc = "sleeping" /\ now < inst[u].sleep_until

\* C11: between the failure of a cycle and the end of the backoff no timer
\* tick runs new_aqi_data_available, so none starts a new cycle.
NoTickDuringBackoff ==
  [][ InBackoff => ~(\E t \in Threads : maybe_read_update_aqi_to_graph(t)) ]_vars

\* C12: whatever the state of the upstream directory, no exception leaves
\* maybe_read_update_aqi_to_graph: no job instance ends with an exception,
\* in new_aqi_data_available or in read_update_aqi_to_graph.
NoExceptionLeavesTick ==
  \A t \in Threads : inst[t].pc = "idle" => inst[t].raised_at = "none"

\* the claimed rule for one record: a (float, float) pair whose pollution
\* index is 0.0 or at least 1.0
WellTypedInRange(aqi_exp) ==
  /\ aqi_exp.kind = "tuple"
  /\ aqi_exp.a.t = "float" /\ aqi_exp.b.t = "float"
  /\ (aqi_exp.a.x = 0 \/ aqi_exp.a.x >= 100)

\* the rule of types alone: a tuple of two floats
WellTyped(aqi_exp) ==
  /\ aqi_exp.kind = "tuple"
  /\ aqi_exp.a.t = "float" /\ aqi_exp.b.t = "float"

RangeClass(x) == IF x \div 100 > 5 THEN 5 ELSE x \div 100

\* C14 as stated: get_aqi_class always returns a class in {1,2,3,4,5}, and
\* the class of the half-open ranges for every pollution index >= 1.
ClassAlwaysOneToFive ==
  (call.fn = "get_aqi_class" /\ call.returned)
    => /\ call.ret \in 1..5
       /\ (call.arg.t = "float" /\ call.arg.x >= 100)
            => call.ret = RangeClass(call.arg.x)

\* C14 as amended: for a pollution index that is a number get_aqi_class
\* returns a class in {1,2,3,4,5}: the class of the half-open ranges for an
\* index >= 1, and 1 for an index below 1; for NaN it returns 0.
ClassOfNumbersOneToFive ==
  (call.fn = "get_aqi_class" /\ call.returned)
    => /\ call.arg.t = "float" => call.ret \in 1..5
       /\ (call.arg.t = "float" /\ call.arg.x >= 100)
            => call.ret = RangeClass(call.arg.x)
       /\ (call.arg.t = "float" /\ call.arg.x < 100) => call.ret = 1
       /\ call.arg.t = "nan" => call.ret = 0

\* C14, the case: the limit 4.0 has been classified, into the upper class.
LimitInUpperClass ==
  /\ call.fn = "get_aqi_class" /\ call.returned
  /\ call.arg = Float(400) /\ call.ret = 4

\* the job instances that are running
Running(is) == { u \in Threads : is[u].pc # "idle" }

StatusLoggedOnlyOnChange ==
  [][ \A t \in Threads :
        maybe_read_update_aqi_to_graph(t)
          => LET status == new_aqi_data_available.status
                 logged == status # aqi_update_status
             IN  logged => status # tick_status ]_vars

\* the number of rows of a frame with the key k
Count(rows, k) == Cardinality({ i \in DOMAIN rows : rows[i].uvkey = k })

\* C17 as stated: whatever the batch, the frame the left join gives holds
\* exactly the edge keys of edge_gdf, each in as many rows as before.
MergeKeepsKeysAndCounts ==
  (call.fn = "merge" /\ call.returned)
    => /\ Keys(call.ret) = Keys(call.arg.left)
       /\ \A k \in Keys(call.arg.left) :
            Count(call.ret, k) = Count(call.arg.left, k)

\* C17 as amended: whatever the batch, the frame the left join gives holds
\* exactly the edge keys of edge_gdf; an edge the batch names n times
\* (n >= 1) has n times the rows it had, every other edge as many as before.
MergeKeepsKeysMultipliesRows ==
  (call.fn = "merge" /\ call.returned)
    => /\ Keys(call.ret) = Keys(call.arg.left)
       /\ \A k \in Keys(call.arg.left) :
            LET n == Count(call.arg.right, k)
            IN  Count(call.ret, k)
                  = Count(call.arg.left, k) * (IF n = 0 THEN 1 ELSE n)

\* C17, the case: a batch that names an edge twice has been joined to an
\* edge_gdf, and the edge has twice the rows it had.
RepeatedKeyDoublesRows ==
  /\ call.fn = "merge" /\ call.returned
  /\ \E k \in Keys(call.arg.left) :
       /\ Count(call.arg.right, k) = 2
       /\ Count(call.ret, k) = 2 * Count(call.arg.left, k)

\* C18: after the cycle for a file has ended in an exception, no tick during
\* the hour of that file is given the file again: aqi_data_wip still names
\* it, so no retry of it is started.
NoRetryAfterFailure ==
  [][ \A t, u \in Threads :
        ( /\ inst[u].pc = "sleeping"
          /\ inst[u].new_aqi_data_csv = get_expected_aqi_data_name(now)
          /\ maybe_read_update_aqi_to_graph(t) )
        => /\ aqi_data_wip = inst[u].new_aqi_data_csv
           /\ new_aqi_data_available.new_aqi_available = NoneCsv ]_vars

\* C19: whenever the status response says b_updated, latest_data is a file
\* name, and it is the name of the file whose cycle set the update time: no
\* cycle stands between line 158 and line 159 with another latest_data.
StatusResponseConsistent ==
  LET response == get_aqi_update_status_response
  IN  response.b_updated
        => /\ response.latest_data # EmptyStr
           /\ \A t \in Threads :
                inst[t].pc = "timed"
                  => response.latest_data = inst[t].new_aqi_data_csv

WellFormed(content) ==
  /\ content \notin { "absent", "nodir" }
  /\ Parses(content)
  /\ \A i \in DOMAIN Batch(content) : Subscriptable(Batch(content)[i].aqi_exp)

\* the file expected now is in aqi_dir and well-formed
ExpectedIsWellFormed(h) ==
  /\ HourAt(now) = h
  /\ WellFormed(files[h])

\* the cycle for the file of hour h is complete
CycleComplete(h) ==
  /\ aqi_data_latest = FileName(h)
  /\ aqi_data_wip = EmptyStr
  /\ bool_graph_aqi_is_up_to_date

\* a job instance sleeps until after the last instant the clock of the
\* model reaches: what it does once it wakes is not modelled
SleepsBeyondClock ==
  \E t \in Threads :
    /\ inst[t].pc = "sleeping"
    /\ \A time \in TimePoints : time < inst[t].sleep_until

\* the file of hour h is expected now, is in aqi_dir and well-formed, and
\* its cycle is due: it is not aqi_data_latest
ExpectedFilePending(h) ==
  /\ ExpectedIsWellFormed(h)
  /\ aqi_data_latest # FileName(h)

====
